---- MODULE Spec2Model ----
(***************************************************************************)
(* Model of app.py: the block timetable generator                          *)
(* (generate_block_timetable), the vehicle summary (generate_summary), the *)
(* compact PDF layout and the button-click run of the Streamlit script.    *)
(*                                                                         *)
(* Vehicle identifiers and vehicle labels are strings in the program; they *)
(* are modelled as sequences of one-character strings so that the label    *)
(* formatting  f"{backup} (H)"  and the substring tests  "(H)" in label ,  *)
(* v in label  are computed as the program computes them.  Identifiers are *)
(* alphanumeric registration numbers.  A Python dict is modelled as a      *)
(* sequence of key/value records in insertion order when its order is      *)
(* observable (timetable_blocks) and as a function otherwise (holidays).   *)
(***************************************************************************)
EXTENDS Integers, Sequences, FiniteSets, TLC

VARIABLES routes, vehicles, days_in_month, pc, exception,
          fixed_vehicles, backup_vehicles, holidays,
          timetable_blocks, backup_index, r_idx,
          vehicle, blocks, start_day, current_vehicle, day,
          subs, pdf_bytes, removed, summary

vars == <<routes, vehicles, days_in_month, pc, exception,
          fixed_vehicles, backup_vehicles, holidays,
          timetable_blocks, backup_index, r_idx,
          vehicle, blocks, start_day, current_vehicle, day,
          subs, pdf_bytes, removed, summary>>

(* ------------------------------ bounds --------------------------------- *)
MaxRoutes == 6
MaxVehicles == 7

(* ------------------------- program constants --------------------------- *)
MinDays == 28
MaxDays == 31
HolidayCycle == 5
HolidayOffset == 6
HolidayStep == 6
MaxHolidays == 5
SummaryCount == 14
ColumnsPerRow == 4

(* ------------------------------ helpers -------------------------------- *)
Min(a, b) == IF a < b THEN a ELSE b

Range(s) == {s[i] : i \in DOMAIN s}

Distinct(s) == \A i, j \in DOMAIN s : i # j => s[i] # s[j]

\* Python s[:n] for n >= 0
Take(s, n) == SubSeq(s, 1, Min(n, Len(s)))

\* Python s[n:] for n >= 0
Drop(s, n) == SubSeq(s, Min(n, Len(s)) + 1, Len(s))

\* Python  t in s  on strings
Contains(s, t) ==
    \E i \in 0..(Len(s) - Len(t)) : SubSeq(s, i + 1, i + Len(t)) = t

HMark == <<"(", "H", ")">>

\* f"{b} (H)"
BackupLabel(b) == b \o <<" ">> \o HMark

(* ------------------------------ inputs --------------------------------- *)
Digit == <<"1", "2", "3", "4", "5", "6", "7", "8", "9">>

VehicleName(i) == <<"V", Digit[i]>>

RouteName(i) == <<"R", Digit[i]>>

\* Shapes of the GADI_NUMBER column: all identifiers distinct; the second
\* row repeats the first; the last row repeats the first; the last row is an
\* identifier that has the first one as a prefix ("V10" against "V1").
VehicleShapes == {"distinct", "dupSecond", "dupLast", "prefixLast"}

VehicleList(n, shape) ==
    [i \in 1..n |->
        IF i = 1 THEN VehicleName(1)
        ELSE IF shape = "dupSecond" /\ i = 2 THEN VehicleName(1)
        ELSE IF shape = "dupLast" /\ i = n THEN VehicleName(1)
        ELSE IF shape = "prefixLast" /\ i = n THEN VehicleName(1) \o <<"0">>
        ELSE VehicleName(i)]

\* Shapes of the RUTE NAME column: all names distinct; the last row repeats
\* the first.
RouteShapes == {"distinct", "dupLast"}

RouteList(n, shape) ==
    [i \in 1..n |->
        IF shape = "dupLast" /\ i = n THEN RouteName(1) ELSE RouteName(i)]

VehicleLists == {VehicleList(n, s) : n \in 0..MaxVehicles, s \in VehicleShapes}

RouteLists == {RouteList(n, s) : n \in 0..MaxRoutes, s \in RouteShapes}

(* ---------------------- generate_block_timetable ----------------------- *)
FixedVehicleCountOffByOne(rs) == IF Len(rs) > 0 THEN Len(rs) - 1 ELSE 0

FixedVehicleCount(rs) == Len(rs)

FirstHolidayNoCycle(i) == i + HolidayOffset

\* first holiday of the fixed vehicle at 0-based position i
FirstHoliday(i) == (i % HolidayCycle) + HolidayOffset

RECURSIVE AppendHolidays(_, _, _)
\* the while loop of the holiday pre-assignment
AppendHolidays(list, d, n) ==
    IF Len(list) < MaxHolidays /\ d <= n
    THEN AppendHolidays(Append(list, d), d + HolidayStep, n)
    ELSE list

RECURSIVE PreAssignHolidays(_, _, _)
\* the holidays dict after the first i iterations of the enumerate loop
PreAssignHolidays(fixed, i, n) ==
    IF i = 0
    THEN [v \in Range(fixed) |-> <<>>]
    ELSE LET h == PreAssignHolidays(fixed, i - 1, n)
             v == fixed[i]
         IN  [h EXCEPT ![v] = AppendHolidays(h[v], FirstHoliday(i - 1), n)]

FixedVehicleForShifted(fixed, r) == fixed[((r + 1) % Len(fixed)) + 1]

\* fixed_vehicles[r_idx % len(fixed_vehicles)], r 0-based, Len(fixed) > 0
FixedVehicleFor(fixed, r) == fixed[(r % Len(fixed)) + 1]

IsHolidayOfAny(h, v, d) == \E w \in DOMAIN h : d \in Range(h[w])

\* day in holidays[vehicle]
IsHoliday(h, v, d) == d \in Range(h[v])

NextBackupIndexNoWrap(bi, n) == bi + 1

\* (backup_index + 1) % len(backup_vehicles), n > 0
NextBackupIndex(bi, n) == (bi + 1) % n

VehicleChangesOrHoliday(assigned, current) ==
    assigned # current \/ Contains(assigned, HMark)

\* assigned_vehicle != current_vehicle
VehicleChanges(assigned, current) == assigned # current

CloseBlockInclusive(s, d, cur) == [start |-> s, end |-> d, vehicle |-> cur]

\* the block appended when the vehicle changes on day d
CloseBlock(s, d, cur) == [start |-> s, end |-> d - 1, vehicle |-> cur]

\* the block appended on the last day
LastBlock(s, d, cur) == [start |-> s, end |-> d, vehicle |-> cur]

DictHas(d, k) == \E i \in DOMAIN d : d[i].route = k

DictGet(d, k) == d[CHOOSE i \in DOMAIN d : d[i].route = k].blocks

\* d[k] = v on an insertion-ordered dict
DictSet(d, k, v) ==
    IF DictHas(d, k)
    THEN [i \in DOMAIN d |-> IF d[i].route = k THEN [route |-> k, blocks |-> v] ELSE d[i]]
    ELSE Append(d, [route |-> k, blocks |-> v])

(* --------------------------- generate_summary -------------------------- *)
\* block counted for v: v in block['vehicle'] and "(H)" not in block['vehicle']
Counted(b, v) == Contains(b.vehicle, v) /\ ~Contains(b.vehicle, HMark)

RECURSIVE WorkDaysInRoute(_, _)
WorkDaysInRoute(bs, v) ==
    IF bs = <<>> THEN 0
    ELSE (IF Counted(Head(bs), v) THEN Head(bs).end - Head(bs).start + 1 ELSE 0)
         + WorkDaysInRoute(Tail(bs), v)

RECURSIVE WorkDays(_, _)
WorkDays(tt, v) ==
    IF tt = <<>> THEN 0
    ELSE WorkDaysInRoute(Head(tt).blocks, v) + WorkDays(Tail(tt), v)

GenerateSummary(tt, fv, n) ==
    [i \in 1..Len(fv) |->
        LET w == WorkDays(tt, fv[i])
        IN  [Vehicle |-> fv[i], WorkingDays |-> w, Holidays |-> n - w]]

(* ------------------------------ PDF layout ----------------------------- *)
\* one drawn box: fill colour from the holiday marker, vehicle line, date line
Box(b) ==
    [fill |-> IF Contains(b.vehicle, HMark) THEN "red" ELSE "green",
     vehicle |-> b.vehicle,
     date_line |-> <<b.start, b.end>>]

\* rows of at most cols boxes
BoxRows(bs, cols) ==
    [j \in 1..((Len(bs) + cols - 1) \div cols) |->
        [c \in 1..(Min(j * cols, Len(bs)) - (j - 1) * cols) |->
            Box(bs[(j - 1) * cols + c])]]

GeneratePdfCompactArranged(tt, cols) ==
    [i \in 1..Len(tt) |-> [route |-> tt[i].route, rows |-> BoxRows(tt[i].blocks, cols)]]

(* ---------------------------- state machine ---------------------------- *)
Init ==
    /\ routes \in RouteLists
    /\ vehicles \in VehicleLists
    /\ days_in_month \in MinDays..MaxDays
    /\ pc = "start"
    /\ exception = "none"
    /\ fixed_vehicles = <<>>
    /\ backup_vehicles = <<>>
    /\ holidays = <<>>
    /\ timetable_blocks = <<>>
    /\ backup_index = 0
    /\ r_idx = 0
    /\ vehicle = <<>>
    /\ blocks = <<>>
    /\ start_day = 1
    /\ current_vehicle = <<>>
    /\ day = 1
    /\ subs = <<>>
    /\ pdf_bytes = <<>>
    /\ removed = "pending"
    /\ summary = <<>>

\* lines 16-35: split the vehicles, pre-assign the holidays
Setup ==
    /\ pc = "start"
    /\ LET fixed == Take(vehicles, FixedVehicleCount(routes))
       IN  /\ fixed_vehicles' = fixed
           /\ backup_vehicles' = Drop(vehicles, FixedVehicleCount(routes))
           /\ holidays' = PreAssignHolidays(fixed, Len(fixed), days_in_month)
    /\ timetable_blocks' = <<>>
    /\ backup_index' = 0
    /\ r_idx' = 0
    /\ pc' = "route"
    /\ UNCHANGED <<routes, vehicles, days_in_month, exception, vehicle, blocks,
                   start_day, current_vehicle, day, subs, pdf_bytes, removed, summary>>

\* lines 37-41: start of one iteration of the route loop
RouteBegin ==
    /\ pc = "route"
    /\ r_idx < Len(routes)
    /\ IF Len(fixed_vehicles) = 0
       THEN /\ pc' = "error"
            /\ exception' = "ZeroDivisionError"
            /\ UNCHANGED <<vehicle, blocks, start_day, current_vehicle, day>>
       ELSE /\ vehicle' = FixedVehicleFor(fixed_vehicles, r_idx)
            /\ blocks' = <<>>
            /\ start_day' = 1
            /\ current_vehicle' = FixedVehicleFor(fixed_vehicles, r_idx)
            /\ day' = 1
            /\ pc' = "day"
            /\ UNCHANGED exception
    /\ UNCHANGED <<routes, vehicles, days_in_month, fixed_vehicles, backup_vehicles,
                   holidays, timetable_blocks, backup_index, r_idx, subs,
                   pdf_bytes, removed, summary>>

\* lines 43-59: one iteration of the day loop
DayStep ==
    /\ pc = "day"
    /\ day <= days_in_month
    /\ LET hol == IsHoliday(holidays, vehicle, day)
       IN  IF hol /\ backup_index >= Len(backup_vehicles)
           THEN /\ pc' = "error"
                /\ exception' = "IndexError"
                /\ UNCHANGED <<backup_index, blocks, start_day, current_vehicle,
                               day, subs>>
           ELSE LET assigned == IF hol
                                THEN BackupLabel(backup_vehicles[backup_index + 1])
                                ELSE vehicle
                    changed == VehicleChanges(assigned, current_vehicle)
                    blocks1 == IF changed
                               THEN Append(blocks, CloseBlock(start_day, day, current_vehicle))
                               ELSE blocks
                    cur1 == IF changed THEN assigned ELSE current_vehicle
                    start1 == IF changed THEN day ELSE start_day
                IN  /\ backup_index' = IF hol
                                       THEN NextBackupIndex(backup_index, Len(backup_vehicles))
                                       ELSE backup_index
                    /\ subs' = IF hol THEN Append(subs, assigned) ELSE subs
                    /\ current_vehicle' = cur1
                    /\ start_day' = start1
                    /\ blocks' = IF day = days_in_month
                                 THEN Append(blocks1, LastBlock(start1, day, cur1))
                                 ELSE blocks1
                    /\ day' = day + 1
                    /\ UNCHANGED <<pc, exception>>
    /\ UNCHANGED <<routes, vehicles, days_in_month, fixed_vehicles, backup_vehicles,
                   holidays, timetable_blocks, r_idx, vehicle, pdf_bytes, removed,
                   summary>>

\* line 61: timetable_blocks[route] = blocks
RouteEnd ==
    /\ pc = "day"
    /\ day > days_in_month
    /\ timetable_blocks' = DictSet(timetable_blocks, routes[r_idx + 1], blocks)
    /\ r_idx' = r_idx + 1
    /\ pc' = "route"
    /\ UNCHANGED <<routes, vehicles, days_in_month, exception, fixed_vehicles,
                   backup_vehicles, holidays, backup_index, vehicle, blocks,
                   start_day, current_vehicle, day, subs, pdf_bytes, removed, summary>>

\* line 63: return timetable_blocks
Return ==
    /\ pc = "route"
    /\ r_idx = Len(routes)
    /\ pc' = "returned"
    /\ UNCHANGED <<routes, vehicles, days_in_month, exception, fixed_vehicles,
                   backup_vehicles, holidays, timetable_blocks, backup_index, r_idx,
                   vehicle, blocks, start_day, current_vehicle, day, subs,
                   pdf_bytes, removed, summary>>

\* lines 218-223: write the PDF to the temporary file and read it back
GeneratePdf ==
    /\ pc = "returned"
    /\ pdf_bytes' = GeneratePdfCompactArranged(timetable_blocks, ColumnsPerRow)
    /\ pc' = "remove"
    /\ UNCHANGED <<routes, vehicles, days_in_month, exception, fixed_vehicles,
                   backup_vehicles, holidays, timetable_blocks, backup_index, r_idx,
                   vehicle, blocks, start_day, current_vehicle, day, subs,
                   removed, summary>>

AfterRemovePropagating(raised) == IF raised THEN "error" ELSE "summary"

\* try: os.remove(...) except Exception: pass
AfterRemove(raised) == "summary"

\* lines 225-228: best-effort deletion of the temporary file
RemoveTmp ==
    /\ pc = "remove"
    /\ \E raised \in BOOLEAN :
        /\ removed' = IF raised THEN "failed" ELSE "ok"
        /\ pc' = AfterRemove(raised)
        /\ exception' = IF AfterRemove(raised) = "error" THEN "OSError" ELSE exception
    /\ UNCHANGED <<routes, vehicles, days_in_month, fixed_vehicles,
                   backup_vehicles, holidays, timetable_blocks, backup_index, r_idx,
                   vehicle, blocks, start_day, current_vehicle, day, subs,
                   pdf_bytes, summary>>

\* lines 231-237: the vehicle summary of the first 14 vehicles
Summary ==
    /\ pc = "summary"
    /\ summary' = GenerateSummary(timetable_blocks, Take(vehicles, SummaryCount),
                                  days_in_month)
    /\ pc' = "done"
    /\ UNCHANGED <<routes, vehicles, days_in_month, exception, fixed_vehicles,
                   backup_vehicles, holidays, timetable_blocks, backup_index, r_idx,
                   vehicle, blocks, start_day, current_vehicle, day, subs,
                   pdf_bytes, removed>>

Next ==
    \/ Setup
    \/ RouteBegin
    \/ DayStep
    \/ RouteEnd
    \/ Return
    \/ GeneratePdf
    \/ RemoveTmp
    \/ Summary

Spec == Init /\ [][Next]_vars

(* ------------------------------ properties ----------------------------- *)
\* generate_block_timetable has returned its timetable
Returned == pc \in {"returned", "remove", "summary", "done"}

\* the labels a list of blocks gives to day d
LabelsOn(bs, d) ==
    {bs[j].vehicle : j \in {k \in DOMAIN bs : bs[k].start <= d /\ d <= bs[k].end}}

\* the vehicle identifier inside a label, without the " (H)" marker
IdOf(label) ==
    IF Contains(label, HMark) THEN SubSeq(label, 1, Len(label) - 4) ELSE label

\* the position whose blocks the timetable keeps under route name r
LastPos(r) ==
    CHOOSE k \in DOMAIN routes : routes[k] = r /\ \A j \in DOMAIN routes : j > k => routes[j] # r

\* the pre-computed holiday days of vehicle v (none for a vehicle that is not fixed)
HolidayDays(v) == IF v \in DOMAIN holidays THEN Range(holidays[v]) ELSE {}

\* C1: every route's blocks, in emitted order, cover days 1..N exactly once:
\* the first block starts at day 1, the last ends at day N, every block has
\* start <= end and each following block starts at the previous end + 1.
C1_BlocksCoverMonth ==
    Returned =>
        \A i \in DOMAIN timetable_blocks :
            LET b == timetable_blocks[i].blocks
            IN  /\ Len(b) >= 1
                /\ b[1].start = 1
                /\ b[Len(b)].end = days_in_month
                /\ \A j \in DOMAIN b : b[j].start <= b[j].end
                /\ \A j \in 1..(Len(b) - 1) : b[j + 1].start = b[j].end + 1

C1_Witness ==
    /\ Returned
    /\ \E i \in DOMAIN timetable_blocks : Len(timetable_blocks[i].blocks) >= 9

\* C2: every day inside a block whose label carries the "(H)" marker is a
\* pre-computed holiday day of that route's fixed vehicle.
C2_MarkerOnlyOnHolidays ==
    Returned =>
        \A i \in DOMAIN timetable_blocks :
            LET b == timetable_blocks[i].blocks
                fv == fixed_vehicles[LastPos(timetable_blocks[i].route)]
            IN  \A j \in DOMAIN b :
                    Contains(b[j].vehicle, HMark) =>
                        \A d \in b[j].start..b[j].end : d \in HolidayDays(fv)

C2_Witness ==
    /\ Returned
    /\ Len(timetable_blocks) >= 2
    /\ \A i \in DOMAIN timetable_blocks :
           \E j \in DOMAIN timetable_blocks[i].blocks :
               Contains(timetable_blocks[i].blocks[j].vehicle, HMark)

\* C3 (as claimed): every row of the summary the UI builds has Working Days
\* equal to days-in-month minus the number of pre-computed holiday days of
\* that vehicle.
C3_WorkingDaysAsClaimed ==
    pc = "done" =>
        \A i \in DOMAIN summary :
            summary[i].WorkingDays =
                days_in_month - Cardinality(HolidayDays(summary[i].Vehicle))

\* C4: within each route any two consecutive blocks carry different vehicle
\* labels, so every block is a maximal run of days with one label.
C4_AdjacentBlocksDiffer ==
    Returned =>
        \A i \in DOMAIN timetable_blocks :
            LET b == timetable_blocks[i].blocks
            IN  \A j \in 1..(Len(b) - 1) : b[j].vehicle # b[j + 1].vehicle

\* a backup block of more than one day: two consecutive holiday days served
\* by the same backup vehicle were merged into one block
C4_Witness ==
    /\ Returned
    /\ \E i \in DOMAIN timetable_blocks :
           \E j \in DOMAIN timetable_blocks[i].blocks :
               LET b == timetable_blocks[i].blocks[j]
               IN  Contains(b.vehicle, HMark) /\ b.end > b.start

\* C5: with pairwise distinct vehicle identifiers the holidays of the fixed
\* vehicle at 0-based position i are exactly the days (i mod 5) + 6 + 6k,
\* k = 0..4, that are <= N: at most 5, none before day 6, no two consecutive.
C5_HolidayPlacement ==
    (pc # "start" /\ Distinct(vehicles)) =>
        \A p \in DOMAIN fixed_vehicles :
            LET h == holidays[fixed_vehicles[p]]
                i == p - 1
            IN  /\ Range(h) = {d \in 1..days_in_month :
                                  \E k \in 0..4 : d = (i % 5) + 6 + 6 * k}
                /\ Distinct(h)
                /\ Len(h) <= 5
                /\ \A d \in Range(h) : d >= 6 /\ (d + 1) \notin Range(h)

C5_Witness ==
    /\ pc # "start"
    /\ Distinct(vehicles)
    /\ Len(fixed_vehicles) >= 6
    /\ Len(holidays[fixed_vehicles[1]]) = 5
    /\ Len(holidays[fixed_vehicles[6]]) = 5
    /\ Len(holidays[fixed_vehicles[2]]) = 4

\* the day-by-day content of C6 for the route at position k
C6_RouteLabels(k) ==
    LET b == DictGet(timetable_blocks, routes[k])
        fv == vehicles[k]
    IN  \A d \in 1..days_in_month :
            IF d \in HolidayDays(fv)
            THEN \E x \in Range(backup_vehicles) : LabelsOn(b, d) = {BackupLabel(x)}
            ELSE LabelsOn(b, d) = {fv}

C6_Split ==
    /\ fixed_vehicles = Take(vehicles, Len(routes))
    /\ backup_vehicles = Drop(vehicles, Len(routes))

\* C6 (as claimed): with at least as many vehicles as routes, the route at
\* position k has the vehicle at position k as fixed vehicle, the backups are
\* the vehicles after the first len(routes), and the route's label is the
\* fixed vehicle on its non-holiday days and a backup identifier followed by
\* " (H)" on its holiday days.
C6_AsClaimed ==
    (pc # "start" /\ Len(vehicles) >= Len(routes)) =>
        /\ C6_Split
        /\ Returned => \A k \in DOMAIN routes : C6_RouteLabels(k)

\* C6 (amended): the same, when the route names are pairwise distinct.
C6_FixedAndBackupLabels ==
    (pc # "start" /\ Len(vehicles) >= Len(routes) /\ Distinct(routes)) =>
        /\ C6_Split
        /\ Returned => \A k \in DOMAIN routes : C6_RouteLabels(k)

C6_Witness ==
    /\ Returned
    /\ Distinct(routes)
    /\ Len(routes) >= 2
    /\ Len(backup_vehicles) >= 2

\* C7: the outcome of os.remove does not matter: from the deletion step the
\* run goes on to the summary with the timetable and the PDF bytes untouched,
\* and the summary step computes the summary of the first 14 vehicles.
C7_RemoveFailureIgnored ==
    [][/\ pc = "remove" =>
            /\ pc' = "summary"
            /\ removed' \in {"ok", "failed"}
            /\ UNCHANGED <<timetable_blocks, pdf_bytes, summary, exception>>
       /\ pc = "summary" =>
            /\ pc' = "done"
            /\ summary' = GenerateSummary(timetable_blocks,
                                          Take(vehicles, SummaryCount), days_in_month)
            /\ UNCHANGED <<timetable_blocks, pdf_bytes, removed, exception>>]_vars

C7_Witness ==
    /\ pc = "done"
    /\ removed = "failed"
    /\ exception = "none"
    /\ Len(summary) >= 2
    /\ Len(pdf_bytes) >= 1

\* C8: one counter shared by all routes hands out the backups round-robin:
\* the j-th substitution overall (0-based) is labelled with the backup at
\* position j mod B and after every substitution the counter is in 0..B-1.
C8_RoundRobin ==
    LET B == Len(backup_vehicles)
    IN  Len(subs) > 0 =>
            /\ backup_index \in 0..(B - 1)
            /\ backup_index = Len(subs) % B
            /\ \A j \in 0..(Len(subs) - 1) :
                   subs[j + 1] = BackupLabel(backup_vehicles[(j % B) + 1])

\* the counter has wrapped and is not at 0 at the start of a later route
C8_Witness ==
    /\ Len(backup_vehicles) >= 2
    /\ Len(subs) > Len(backup_vehicles)
    /\ r_idx >= 1
    /\ pc = "day"
    /\ day = 1
    /\ backup_index # 0

\* C9: with at least one route and no more vehicles than routes the function
\* never returns: it stops in the first route, no later than its first
\* holiday, with ZeroDivisionError (no vehicle) or IndexError (no backup),
\* and no timetable entry has been stored.
C9_NoBackupAborts ==
    (Len(routes) >= 1 /\ Len(vehicles) <= Len(routes)) =>
        /\ pc \in {"start", "route", "day", "error"}
        /\ timetable_blocks = <<>>
        /\ r_idx = 0
        /\ pc = "day" => day <= 6
        /\ pc = "error" =>
               /\ exception = IF vehicles = <<>> THEN "ZeroDivisionError" ELSE "IndexError"
               /\ exception = "IndexError" => day = 6

C9_Witness ==
    /\ Len(routes) >= 2
    /\ Len(vehicles) = Len(routes)
    /\ pc = "error"
    /\ exception = "IndexError"

\* C10 (as claimed): with pairwise distinct vehicle identifiers and route
\* names no vehicle serves two different routes on the same day.
C10_NoDoubleBookingAsClaimed ==
    (Returned /\ Distinct(vehicles) /\ Distinct(routes)) =>
        \A d \in 1..days_in_month :
            \A i, j \in DOMAIN timetable_blocks :
                i # j =>
                    {IdOf(l) : l \in LabelsOn(timetable_blocks[i].blocks, d)}
                    \cap {IdOf(l) : l \in LabelsOn(timetable_blocks[j].blocks, d)} = {}

====
